---- MODULE Spec2Model ----
(***************************************************************************)
(* Model of the taskify front-end: the authenticated request wrapper      *)
(* (services/apiClient.ts), the authentication slice                      *)
(* (features/auth/authSlice.ts) and the task slice                        *)
(* (features/tasks/taskSlice.ts).                                         *)
(***************************************************************************)
EXTENDS Integers, Sequences, FiniteSets, TLC

\* ------------------------------------------------------------------------
\* Bounds
\* ------------------------------------------------------------------------
NCalls == 2
MaxRefreshes == 2
MaxId == 2
MaxCards == 3

Calls == 1..NCalls

\* ------------------------------------------------------------------------
\* JavaScript values
\* ------------------------------------------------------------------------
Null == "null"
Undefined == "undefined"
\* refreshPromise = null; also "no call" where a call id is expected
NoCall == 0
\* tag of an error built from the refresh call's response
RefreshSrc == NCalls + 1

\* a || b on strings: undefined, null and "" are falsy
Or(a, b) == IF a \in {Undefined, Null, ""} THEN b ELSE a

Users == {"alice", "bob"}

\* optional values: undefined/null is the empty tuple
None == <<>>
Some(x) == <<x>>
IsSome(o) == o # <<>>
Get(o) == o[1]

\* strings kept in localStorage: absent entry, JSON text of a user, other text
NoEntry == [kind |-> "absent", user |-> Null]
Garbage == [kind |-> "text", user |-> Null]

\* JSON.stringify / JSON.parse of a user object
Stringify(u) == [kind |-> "json", user |-> u]
IsJson(str) == str.kind = "json"
Parse(str) == str.user

\* ------------------------------------------------------------------------
\* The server, seen from the client
\* ------------------------------------------------------------------------
\* entities mirrored from the API, reduced to what the reducers read: the id,
\* a version v standing for the other fields, and for tasks the subtask counts
Ids == 1..MaxId
Versions == {1, 2}
SubTaskCount(total, done) == [total |-> total, done |-> done]
TaskResponse(id, v) == [id |-> id, v |-> v, subtask |-> Some(SubTaskCount(0, 0))]
TaskA == TaskResponse(1, 1)

ThunkKinds == {"getCurrentUser", "getTasks", "refreshToken"}

\* third argument of apiClient: authService passes false for the refresh call only
RetryOn401Of(kind) == kind # "refreshToken"

ServerMessage(kind, status) ==
  IF status = 200 THEN "OK"
  ELSE IF kind = "refreshToken" THEN "Invalid refresh token"
  ELSE IF status = 401 THEN "Unauthorized"
  ELSE "Server error"


Bodies(kind) ==
  IF kind = "getCurrentUser" THEN {"alice"}
  ELSE IF kind = "getTasks" THEN {<<TaskA>>}
  ELSE {"tokens"}

Responses(kind) ==
  { [status |-> 200, message |-> "OK", body |-> Some(b)] : b \in Bodies(kind) }
  \cup
  { [status |-> 401, message |-> m, body |-> None] :
      m \in {Undefined, ServerMessage(kind, 401)} }
  \cup
  { [status |-> 500, message |-> ServerMessage(kind, 500), body |-> None] }

\* response.ok
Ok(status) == status >= 200 /\ status <= 299

ApiError(message, src) == [message |-> message, src |-> src]

NoError == ApiError(Null, NoCall)

RefreshEvent(owner, status) == [owner |-> owner, status |-> status]
NoRefresh == RefreshEvent(NoCall, 0)

\* how a call's promise settled; via and status record the path taken:
\* "response" (its own response, of that status), "refresh" (the catch block
\* after a failed refresh), "queue" (processQueue)
NoResult ==
  [kind |-> "none", value |-> None, error |-> NoError, via |-> "none", status |-> 0]

Resolved(value, status) ==
  [kind |-> "resolved", value |-> value, error |-> NoError, via |-> "response",
   status |-> status]

Rejected(err, via, status) ==
  [kind |-> "rejected", value |-> None, error |-> err, via |-> via, status |-> status]

VARIABLES
  pc,             \* position of each apiClient call
  thunk,          \* the thunk each call belongs to
  sends,          \* fetches issued so far for a call in progress
  data,           \* data.message held by a makeRequest that awaits the refresh
  result,         \* how the promises settled in the last step were settled
  refreshStarts,  \* refreshes a call in progress has started
  queuedAt,       \* value of sends when a call in progress was first queued
  awaits,         \* owner of the refresh promise the call awaits
  isRefreshing,
  refreshPromise,
  failedQueue,
  refreshCalls,   \* owners of the POST /api/auth/refresh calls in flight
  lastRefresh,    \* the refresh response handled in the last step, if any
  refreshTotal,   \* refreshes started so far
  auth,
  storage,
  taskState,
  scenario,       \* the part of the task slice a session exercises
  inFlight,       \* the task thunk dispatched and not yet settled
  lastAction,     \* the slice action reduced in the last step
  route,          \* the page on screen
  nav,            \* the target of a router.push not yet completed
  authCalls,      \* the auth thunks dispatched and not yet settled
  committed,      \* the auth flags the page's effects last ran with
  verified,       \* GET /api/auth/me has succeeded since the layout mounted
  noUserAtMount,  \* the layout mounted with no "user" entry in localStorage
  verifyFailed,   \* a verification failed and /login is not on screen yet
  persisted,      \* the user last stored by the slice and not cleared since
  columns         \* the columns of the tasks page as last rendered

uiVars == <<route, nav, authCalls, committed, verified, noUserAtMount, verifyFailed,
           persisted, columns>>

apiVars == <<pc, thunk, sends, data, result, refreshStarts, queuedAt, awaits,
             isRefreshing, refreshPromise, failedQueue, refreshCalls, lastRefresh, refreshTotal>>

vars == <<pc, thunk, sends, data, result, refreshStarts, queuedAt, awaits,
          isRefreshing, refreshPromise, failedQueue, refreshCalls, lastRefresh,
          refreshTotal, auth, storage, taskState, scenario, inFlight, lastAction,
          route, nav, authCalls, committed, verified, noUserAtMount, verifyFailed,
          persisted, columns>>

\* ------------------------------------------------------------------------
\* features/auth/authSlice.ts
\* ------------------------------------------------------------------------
AuthState(user, isAuthenticated, isLoading, isVerifying, error) ==
  [user |-> user, isAuthenticated |-> isAuthenticated, isLoading |-> isLoading,
   isVerifying |-> isVerifying, error |-> error]

\* a reducer's result: the slice state and the persisted "user" entry
AuthOut(s, st) == [auth |-> s, storage |-> st]

\* getInitialState in the browser; userStr is storage.getItem("user")
getInitialState_TrustsStoredUser(userStr) ==
  IF userStr # NoEntry /\ IsJson(userStr)
  THEN AuthOut(AuthState(Parse(userStr), TRUE, FALSE, FALSE, Null), userStr)
  ELSE AuthOut(AuthState(Null, FALSE, FALSE, TRUE, Null), userStr)

getInitialState(userStr) ==
  IF userStr # NoEntry /\ IsJson(userStr)
  THEN AuthOut(AuthState(Parse(userStr), TRUE, FALSE, TRUE, Null), userStr)
  ELSE AuthOut(AuthState(Null, FALSE, FALSE, TRUE, Null), NoEntry)

\* getInitialState on the server (typeof window === "undefined")
getInitialStateServer == AuthState(Null, FALSE, FALSE, TRUE, Null)

\* reducers.clearError
authClearError(s, st) == AuthOut([s EXCEPT !.error = Null], st)

setAuth(s, st, payload) ==
  AuthOut([s EXCEPT !.user = payload.user, !.isAuthenticated = TRUE,
                    !.isVerifying = FALSE],
          Stringify(payload.user))

clearAuth(s, st) ==
  AuthOut([s EXCEPT !.user = Null, !.isAuthenticated = FALSE, !.isVerifying = FALSE],
          NoEntry)

signUpPending(s, st) == AuthOut([s EXCEPT !.isLoading = TRUE, !.error = Null], st)

signUpFulfilled(s, st, payload) ==
  AuthOut([s EXCEPT !.isLoading = FALSE, !.user = payload.data,
                    !.isAuthenticated = TRUE, !.isVerifying = FALSE, !.error = Null],
          Stringify(payload.data))

signUpRejected(s, st, payload) ==
  AuthOut([s EXCEPT !.isLoading = FALSE, !.error = Or(payload.message, "Signup failed"),
                    !.isAuthenticated = FALSE, !.isVerifying = FALSE],
          st)

signInPending(s, st) == AuthOut([s EXCEPT !.isLoading = TRUE, !.error = Null], st)

signInFulfilled(s, st, payload) ==
  AuthOut([s EXCEPT !.isLoading = FALSE, !.user = payload.data,
                    !.isAuthenticated = TRUE, !.isVerifying = FALSE, !.error = Null],
          Stringify(payload.data))

signInRejected_StaysAuthenticated(s, st, payload) ==
  AuthOut([s EXCEPT !.isLoading = FALSE, !.error = Or(payload.message, "Signin failed"),
                    !.isVerifying = FALSE],
          st)

signInRejected(s, st, payload) ==
  AuthOut([s EXCEPT !.isLoading = FALSE, !.error = Or(payload.message, "Signin failed"),
                    !.isAuthenticated = FALSE, !.isVerifying = FALSE],
          st)

signOutPending(s, st) == AuthOut([s EXCEPT !.isLoading = TRUE, !.error = Null], st)

signOutFulfilled(s, st) ==
  AuthOut([s EXCEPT !.isLoading = FALSE, !.user = Null, !.isAuthenticated = FALSE,
                    !.isVerifying = FALSE, !.error = Null],
          NoEntry)

signOutRejected_KeepsSession(s, st, payload) ==
  AuthOut([s EXCEPT !.isLoading = FALSE, !.error = Or(payload.message, "Signout failed")],
          st)

signOutRejected(s, st, payload) ==
  AuthOut([s EXCEPT !.isLoading = FALSE, !.error = Or(payload.message, "Signout failed"),
                    !.user = Null, !.isAuthenticated = FALSE],
          NoEntry)

getCurrentUserPending(s, st) ==
  AuthOut([s EXCEPT !.isVerifying = TRUE, !.error = Null], st)

getCurrentUserFulfilled(s, st, payload) ==
  AuthOut([s EXCEPT !.isVerifying = FALSE, !.user = payload,
                    !.isAuthenticated = TRUE, !.error = Null],
          Stringify(payload))

getCurrentUserRejected_KeepsSession(s, st, payload) ==
  AuthOut([s EXCEPT !.isVerifying = FALSE,
                    !.error = Or(payload.message, "Authentication failed")],
          st)

getCurrentUserRejected(s, st, payload) ==
  AuthOut([s EXCEPT !.isVerifying = FALSE, !.user = Null,
                    !.isAuthenticated = FALSE,
                    !.error = Or(payload.message, "Authentication failed")],
          NoEntry)

refreshTokenPending(s, st) == AuthOut(s, st)

refreshTokenFulfilled(s, st) == AuthOut(s, st)

refreshTokenRejected(s, st) ==
  AuthOut([s EXCEPT !.user = Null, !.isAuthenticated = FALSE], NoEntry)

\* ------------------------------------------------------------------------
\* features/tasks/taskSlice.ts
\* ------------------------------------------------------------------------
initialState == [tasks |-> <<>>, task |-> None, isLoading |-> FALSE, error |-> Null]

DONE == "done"
TaskStatuses == {"pending", "in_progress", DONE}

\* {...a, ...b}
Merge(a, b) ==
  [f \in (DOMAIN a) \cup (DOMAIN b) |-> IF f \in DOMAIN b THEN b[f] ELSE a[f]]

\* Array.prototype.findIndex on the id; 0 stands for -1
FindIndex(list, id) ==
  IF \E i \in 1..Len(list) : list[i].id = id
  THEN CHOOSE i \in 1..Len(list) :
         /\ list[i].id = id
         /\ \A j \in 1..(i - 1) : list[j].id # id
  ELSE 0

\* list.filter((x) => x.id !== id)
RECURSIVE FilterOut(_, _)
FilterOut(list, id) ==
  IF list = <<>> THEN <<>>
  ELSE IF Head(list).id = id THEN FilterOut(Tail(list), id)
  ELSE <<Head(list)>> \o FilterOut(Tail(list), id)

Pending(s) == [s EXCEPT !.isLoading = TRUE, !.error = Null]

\* a rejected reducer that also empties the list
RejectedLoading_DropsTasks(s, payload, text) ==
  [s EXCEPT !.isLoading = FALSE, !.error = Or(payload.message, text), !.tasks = <<>>]

RejectedLoading(s, payload, text) ==
  [s EXCEPT !.isLoading = FALSE, !.error = Or(payload.message, text)]

createTaskPending(s) == Pending(s)

createTaskFulfilled(s, payload) ==
  [s EXCEPT !.isLoading = FALSE, !.error = Null, !.tasks = Append(@, payload)]

createTaskRejected(s, payload) == RejectedLoading(s, payload, "Failed to create task")

getTasksPending(s) == Pending(s)

getTasksFulfilled(s, payload) == [s EXCEPT !.isLoading = FALSE, !.tasks = payload]

getTasksRejected(s, payload) == RejectedLoading(s, payload, "Failed to get tasks")

getTaskDetailPending(s) == Pending(s)

getTaskDetailFulfilled(s, payload) ==
  [s EXCEPT !.isLoading = FALSE, !.error = Null, !.task = Some(payload)]

getTaskDetailRejected(s, payload) ==
  RejectedLoading(s, payload, "Failed to get task detail")

updateTaskStatusPending(s) == Pending(s)

updateTaskStatusFulfilled_Upserts(s, payload) ==
  LET taskIndex == FindIndex(s.tasks, payload.id) IN
  [s EXCEPT !.isLoading = FALSE, !.error = Null,
            !.tasks = IF taskIndex # 0 THEN [@ EXCEPT ![taskIndex] = payload]
                      ELSE Append(@, payload)]

updateTaskStatusFulfilled(s, payload) ==
  LET taskIndex == FindIndex(s.tasks, payload.id) IN
  [s EXCEPT !.isLoading = FALSE, !.error = Null,
            !.tasks = IF taskIndex # 0 THEN [@ EXCEPT ![taskIndex] = payload] ELSE @]

updateTaskStatusRejected(s, payload) ==
  RejectedLoading(s, payload, "Failed to update task status")

updateTaskPending(s) == Pending(s)

updateTaskFulfilled(s, payload) ==
  LET taskIndex == FindIndex(s.tasks, payload.id) IN
  [s EXCEPT !.isLoading = FALSE, !.error = Null,
            !.tasks = IF taskIndex # 0 THEN [@ EXCEPT ![taskIndex] = payload] ELSE @,
            !.task = IF IsSome(@) /\ Get(@).id = payload.id
                     THEN Some(Merge(Get(@), payload))
                     ELSE @]

updateTaskRejected(s, payload) == RejectedLoading(s, payload, "Failed to update task")

deleteTaskPending(s) == Pending(s)

deleteTaskFulfilled(s, payload) ==
  [s EXCEPT !.isLoading = FALSE, !.error = Null, !.tasks = FilterOut(@, payload)]

deleteTaskRejected(s, payload) == RejectedLoading(s, payload, "Failed to delete task")

\* the comment reducers leave isLoading alone
CommentPending(s) == [s EXCEPT !.error = Null]

CommentRejected(s, payload, text) == [s EXCEPT !.error = Or(payload.message, text)]

createCommentPending(s) == CommentPending(s)

createCommentFulfilled(s, payload) ==
  [s EXCEPT !.error = Null,
            !.task = IF IsSome(@)
                     THEN Some([Get(@) EXCEPT !.comments =
                            Some(Append(IF IsSome(@) THEN Get(@) ELSE <<>>, payload))])
                     ELSE @]

createCommentRejected(s, payload) ==
  CommentRejected(s, payload, "Failed to create comment")

deleteCommentPending(s) == CommentPending(s)

deleteCommentFulfilled(s, payload) ==
  [s EXCEPT !.error = Null,
            !.task = IF IsSome(@) /\ IsSome(Get(@).comments)
                     THEN Some([Get(@) EXCEPT !.comments = Some(FilterOut(Get(@), payload))])
                     ELSE @]

deleteCommentRejected(s, payload) ==
  CommentRejected(s, payload, "Failed to delete comment")

updateCommentPending(s) == CommentPending(s)

updateCommentFulfilled(s, payload) ==
  [s EXCEPT !.error = Null,
            !.task = IF IsSome(@) /\ IsSome(Get(@).comments)
                     THEN LET comments == Get(Get(@).comments)
                              index == FindIndex(comments, payload.id)
                          IN  IF index # 0
                              THEN Some([Get(@) EXCEPT !.comments =
                                           Some([comments EXCEPT ![index] = payload])])
                              ELSE @
                     ELSE @]

updateCommentRejected(s, payload) ==
  CommentRejected(s, payload, "Failed to update comment")

\* if (state.task.subtask) { total += dTotal; done += dDone }
AdjustCount(count, dTotal, dDone) ==
  IF IsSome(count)
  THEN Some(SubTaskCount(Get(count).total + dTotal, Get(count).done + dDone))
  ELSE count

\* the subtask thunks have fulfilled reducers only
createSubTaskFulfilled(s, payload) ==
  [s EXCEPT !.task =
     IF IsSome(@)
     THEN Some([Get(@) EXCEPT
                  !.subtasks = Some(Append(IF IsSome(@) THEN Get(@) ELSE <<>>, payload)),
                  !.subtask = AdjustCount(@, 1, 0)])
     ELSE @]

updateSubTaskFulfilled(s, payload) ==
  [s EXCEPT !.task =
     IF IsSome(@) /\ IsSome(Get(@).subtasks)
     THEN LET subtasks == Get(Get(@).subtasks)
              index == FindIndex(subtasks, payload.id)
          IN  IF index # 0
              THEN Some([Get(@) EXCEPT !.subtasks =
                     Some([subtasks EXCEPT ![index] = Merge(subtasks[index], payload)])])
              ELSE @
     ELSE @]

updateSubTaskStatusFulfilled(s, payload) ==
  [s EXCEPT !.task =
     IF IsSome(@) /\ IsSome(Get(@).subtasks)
     THEN LET subtasks == Get(Get(@).subtasks)
              index == FindIndex(subtasks, payload.id)
          IN  IF index # 0
              THEN LET oldStatus == subtasks[index].status
                       newStatus == payload.status
                   IN  Some([Get(@) EXCEPT
                          !.subtasks = Some([subtasks EXCEPT ![index] = payload]),
                          !.subtask =
                             IF oldStatus # newStatus
                             THEN IF newStatus = DONE THEN AdjustCount(@, 0, 1)
                                  ELSE IF oldStatus = DONE THEN AdjustCount(@, 0, -1)
                                  ELSE @
                             ELSE @])
              ELSE @
     ELSE @]

deleteSubTaskFulfilled(s, payload) ==
  [s EXCEPT !.task =
     IF IsSome(@) /\ IsSome(Get(@).subtasks)
     THEN Some([Get(@) EXCEPT
                  !.subtasks = Some(FilterOut(Get(@), payload.id)),
                  !.subtask = AdjustCount(@, -1, IF payload.status = DONE THEN -1 ELSE 0)])
     ELSE @]

\* reducers.clearError
clearError(s) == [s EXCEPT !.error = Null]

\* ------------------------------------------------------------------------
\* The task thunks as the slice sees them: pending on dispatch, then fulfilled
\* with the server's entity or rejected with the ApiError
\* ------------------------------------------------------------------------
Action(name, phase, payload) == [name |-> name, phase |-> phase, payload |-> payload]
NoAction == Action("init", "none", None)

Comment(id, v) == [id |-> id, v |-> v]
SubTask(id, status) == [id |-> id, status |-> status]

IdsOf(list) == {list[i].id : i \in 1..Len(list)}

\* the lists a server returns: no id twice
UniqueLists(entries) ==
  {l \in UNION {[1..n -> entries] : n \in 0..MaxId} :
     \A i, j \in 1..Len(l) : i # j => l[i].id # l[j].id}

CountDone(list) == Cardinality({i \in 1..Len(list) : list[i].status = DONE})

TaskDetailResponse(id, v, count, subtasks, comments) ==
  [id |-> id, v |-> v, subtask |-> count, subtasks |-> subtasks, comments |-> comments]

Scenarios == {"tasks", "comments", "subtasks"}

ScenarioThunks(sc) ==
  CASE sc = "tasks" -> {"createTask", "getTasks", "getTaskDetail", "updateTaskStatus",
                        "updateTask", "deleteTask"}
    [] sc = "comments" -> {"getTaskDetail", "createComment", "deleteComment",
                           "updateComment"}
    [] sc = "subtasks" -> {"getTaskDetail", "createSubTask", "updateSubTask",
                           "updateSubTaskStatus", "deleteSubTask"}
    [] OTHER -> {}

TaskPayloads == {TaskResponse(id, v) : id \in Ids, v \in Versions}
CommentPayloads == {Comment(id, v) : id \in Ids, v \in Versions}
SubTaskPayloads == {SubTask(id, st) : id \in Ids, st \in TaskStatuses}

TaskLists == UniqueLists(TaskPayloads)
CommentLists == UniqueLists(CommentPayloads)
SubTaskLists == UniqueLists(SubTaskPayloads)

\* the details the server returns: the counts it sends are those of the list it sends
TaskDetails ==
  {TaskDetailResponse(id, v, Some(SubTaskCount(0, 0)), Some(<<>>), Some(<<>>)) :
     id \in Ids, v \in Versions}

CommentDetails ==
  {TaskDetailResponse(1, 1, Some(SubTaskCount(0, 0)), Some(<<>>), c) :
     c \in {None} \cup {Some(l) : l \in CommentLists}}

SubTaskDetails ==
  {TaskDetailResponse(1, 1, Some(SubTaskCount(0, 0)), None, Some(<<>>)),
   TaskDetailResponse(1, 1, None, Some(<<>>), Some(<<>>))}
  \cup
  {TaskDetailResponse(1, 1, Some(SubTaskCount(Len(l), CountDone(l))), Some(l), Some(<<>>)) :
     l \in SubTaskLists}

DetailPayloads(sc) ==
  CASE sc = "tasks" -> TaskDetails
    [] sc = "comments" -> CommentDetails
    [] OTHER -> SubTaskDetails

LocalList(s, field) ==
  IF IsSome(s.task) /\ IsSome(Get(s.task)[field]) THEN Get(Get(s.task)[field]) ELSE <<>>

\* what a fulfilled thunk carries; a created entity has an id the client has not seen
FulfilledPayloads(sc, name, s) ==
  CASE name = "createTask" -> {TaskResponse(id, 1) : id \in Ids \ IdsOf(s.tasks)}
    [] name = "getTasks" -> TaskLists
    [] name = "getTaskDetail" -> DetailPayloads(sc)
    [] name \in {"updateTaskStatus", "updateTask"} -> TaskPayloads
    [] name \in {"deleteTask", "deleteComment"} -> Ids
    [] name = "createComment" ->
         {Comment(id, 1) : id \in Ids \ IdsOf(LocalList(s, "comments"))}
    [] name = "updateComment" -> CommentPayloads
    [] name = "createSubTask" ->
         {SubTask(id, st) : id \in Ids \ IdsOf(LocalList(s, "subtasks")),
                            st \in TaskStatuses}
    [] OTHER -> SubTaskPayloads

RejectedPayloads == {[message |-> Undefined], [message |-> "Server error"]}

\* the reducer the slice runs for an action; an action without a case changes nothing
TaskReducer(s, name, phase, payload) ==
  CASE phase = "pending" ->
         (CASE name = "createTask" -> createTaskPending(s)
            [] name = "getTasks" -> getTasksPending(s)
            [] name = "getTaskDetail" -> getTaskDetailPending(s)
            [] name = "updateTaskStatus" -> updateTaskStatusPending(s)
            [] name = "updateTask" -> updateTaskPending(s)
            [] name = "deleteTask" -> deleteTaskPending(s)
            [] name = "createComment" -> createCommentPending(s)
            [] name = "deleteComment" -> deleteCommentPending(s)
            [] name = "updateComment" -> updateCommentPending(s)
            [] OTHER -> s)
    [] phase = "fulfilled" ->
         (CASE name = "createTask" -> createTaskFulfilled(s, payload)
            [] name = "getTasks" -> getTasksFulfilled(s, payload)
            [] name = "getTaskDetail" -> getTaskDetailFulfilled(s, payload)
            [] name = "updateTaskStatus" -> updateTaskStatusFulfilled(s, payload)
            [] name = "updateTask" -> updateTaskFulfilled(s, payload)
            [] name = "deleteTask" -> deleteTaskFulfilled(s, payload)
            [] name = "createComment" -> createCommentFulfilled(s, payload)
            [] name = "deleteComment" -> deleteCommentFulfilled(s, payload)
            [] name = "updateComment" -> updateCommentFulfilled(s, payload)
            [] name = "createSubTask" -> createSubTaskFulfilled(s, payload)
            [] name = "updateSubTask" -> updateSubTaskFulfilled(s, payload)
            [] name = "updateSubTaskStatus" -> updateSubTaskStatusFulfilled(s, payload)
            [] name = "deleteSubTask" -> deleteSubTaskFulfilled(s, payload)
            [] OTHER -> s)
    [] phase = "rejected" ->
         (CASE name = "createTask" -> createTaskRejected(s, payload)
            [] name = "getTasks" -> getTasksRejected(s, payload)
            [] name = "getTaskDetail" -> getTaskDetailRejected(s, payload)
            [] name = "updateTaskStatus" -> updateTaskStatusRejected(s, payload)
            [] name = "updateTask" -> updateTaskRejected(s, payload)
            [] name = "deleteTask" -> deleteTaskRejected(s, payload)
            [] name = "createComment" -> createCommentRejected(s, payload)
            [] name = "deleteComment" -> deleteCommentRejected(s, payload)
            [] name = "updateComment" -> updateCommentRejected(s, payload)
            [] OTHER -> s)
    [] OTHER -> s

\* the counters stay in a window around the list lengths explored
CounterRange == (0 - 1)..(MaxId + 1)

CountersInRange(s) ==
  (IsSome(s.task) /\ IsSome(Get(s.task).subtask)) =>
     /\ Get(Get(s.task).subtask).total \in CounterRange
     /\ Get(Get(s.task).subtask).done \in CounterRange

TaskDispatch(name) ==
  /\ inFlight = "none"
  /\ name \in ScenarioThunks(scenario)
  /\ inFlight' = name
  /\ taskState' = TaskReducer(taskState, name, "pending", None)
  /\ lastAction' = Action(name, "pending", None)
  /\ UNCHANGED <<uiVars, apiVars, auth, storage, scenario>>

TaskFulfilled(name, payload) ==
  /\ inFlight = name
  /\ CountersInRange(TaskReducer(taskState, name, "fulfilled", payload))
  /\ inFlight' = "none"
  /\ taskState' = TaskReducer(taskState, name, "fulfilled", payload)
  /\ lastAction' = Action(name, "fulfilled", Some(payload))
  /\ UNCHANGED <<uiVars, apiVars, auth, storage, scenario>>

TaskRejected(name, payload) ==
  /\ inFlight = name
  /\ inFlight' = "none"
  /\ taskState' = TaskReducer(taskState, name, "rejected", payload)
  /\ lastAction' = Action(name, "rejected", Some(payload))
  /\ UNCHANGED <<uiVars, apiVars, auth, storage, scenario>>

ClearError ==
  /\ taskState' = clearError(taskState)
  /\ lastAction' = Action("clearError", "reducer", None)
  /\ UNCHANGED <<uiVars, apiVars, auth, storage, scenario, inFlight>>

\* ------------------------------------------------------------------------
\* The thunks that call apiClient (createAsyncThunk: pending on dispatch,
\* fulfilled / rejected when the payload creator's promise settles)
\* ------------------------------------------------------------------------
\* the redux store: both slices and the persisted "user" entry
Store(a, st, t) == [auth |-> a, storage |-> st, taskState |-> t]

DispatchPending(store, kind) ==
  CASE kind = "getCurrentUser" ->
         LET o == getCurrentUserPending(store.auth, store.storage)
         IN  Store(o.auth, o.storage, store.taskState)
    [] kind = "refreshToken" ->
         LET o == refreshTokenPending(store.auth, store.storage)
         IN  Store(o.auth, o.storage, store.taskState)
    [] kind = "getTasks" ->
         Store(store.auth, store.storage, getTasksPending(store.taskState))

DispatchSettled(store, kind, res) ==
  CASE kind = "getCurrentUser" ->
         LET o == IF res.kind = "resolved"
                  THEN getCurrentUserFulfilled(store.auth, store.storage, Get(res.value))
                  ELSE getCurrentUserRejected(store.auth, store.storage, res.error)
         IN  Store(o.auth, o.storage, store.taskState)
    [] kind = "refreshToken" ->
         LET o == IF res.kind = "resolved"
                  THEN refreshTokenFulfilled(store.auth, store.storage)
                  ELSE refreshTokenRejected(store.auth, store.storage)
         IN  Store(o.auth, o.storage, store.taskState)
    [] kind = "getTasks" ->
         Store(store.auth, store.storage,
               IF res.kind = "resolved"
               THEN getTasksFulfilled(store.taskState, Get(res.value))
               ELSE getTasksRejected(store.taskState, res.error))

\* the orders in which the thunks of the calls in S can see their promises settle
Orders(S) ==
  {o \in [1..Cardinality(S) -> S] : \A i, j \in 1..Cardinality(S) : o[i] = o[j] => i = j}

RECURSIVE DispatchAll(_, _, _, _)
DispatchAll(store, order, kinds, results) ==
  IF order = <<>> THEN store
  ELSE DispatchAll(DispatchSettled(store, kinds[Head(order)], results[Head(order)]),
                   Tail(order), kinds, results)

\* ------------------------------------------------------------------------
\* services/apiClient.ts
\* ------------------------------------------------------------------------
\* a makeRequest without the `if (!response.ok)` block: a call made with
\* retryOn401 = false, as the refresh call is, resolves whatever its status
makeRequestBranch_NeverThrows(status, retryOn401, refreshing) ==
  IF status = 401 /\ retryOn401
  THEN IF refreshing THEN "queue" ELSE "refresh"
  ELSE IF ~Ok(status) /\ retryOn401 THEN "throw" ELSE "return"

makeRequestBranch_IgnoresFlag(status, retryOn401, refreshing) ==
  IF status = 401
  THEN IF refreshing THEN "queue" ELSE "refresh"
  ELSE IF ~Ok(status) THEN "throw" ELSE "return"

\* the branch makeRequest takes once the response is parsed
makeRequestBranch(status, retryOn401, refreshing) ==
  IF status = 401 /\ retryOn401
  THEN IF refreshing THEN "queue" ELSE "refresh"
  ELSE IF ~Ok(status) THEN "throw" ELSE "return"

\* attemptTokenRefresh returns the promise already in flight
SharesRefresh == isRefreshing /\ refreshPromise # NoCall

BeginRefresh_FlagNotSet(c) ==
  /\ isRefreshing' = isRefreshing
  /\ refreshPromise' = c

\* attemptTokenRefresh: isRefreshing = true; refreshPromise = (async () => ...)()
BeginRefresh(c) ==
  /\ isRefreshing' = TRUE
  /\ refreshPromise' = c

\* the finally block of the refresh promise
EndRefresh ==
  /\ isRefreshing' = FALSE
  /\ refreshPromise' = NoCall

RefreshFailedError_Rethrows(c, refreshError) == refreshError

\* the error the catch block of makeRequest throws when the refresh failed
RefreshFailedError(c, refreshError) ==
  ApiError(Or(data[c], "Authentication failed"), c)

\* what processQueue(error) hands to a queued caller's reject
QueueRejection(c, error) == error

InQueue(c) == \E i \in 1..Len(failedQueue) : failedQueue[i] = c

Waiters(owner) == {c \in Calls : pc[c] = "awaitRefresh" /\ awaits[c] = owner}

\* apiClient(endpoint, options, retryOn401): the first makeRequest() up to its fetch
StartCall(c, kind) ==
  /\ pc[c] = "idle"
  /\ \A d \in Calls : d < c => pc[d] # "idle"
  /\ pc' = [pc EXCEPT ![c] = "inflight"]
  /\ thunk' = [thunk EXCEPT ![c] = kind]
  /\ sends' = [sends EXCEPT ![c] = 1]
  /\ LET store == DispatchPending(Store(auth, storage, taskState), kind) IN
       /\ auth' = store.auth
       /\ storage' = store.storage
       /\ taskState' = store.taskState
  /\ result' = [d \in Calls |-> NoResult]
  /\ lastRefresh' = NoRefresh
  /\ UNCHANGED <<data, refreshStarts, queuedAt, awaits, isRefreshing, refreshPromise,
                 failedQueue, refreshCalls, refreshTotal, scenario, inFlight, lastAction, uiVars>>

\* makeRequest after `await response.json()`, and the thunk's dispatch when
\* the call settles
Response(c, r) ==
  /\ pc[c] = "inflight"
  /\ r \in Responses(thunk[c])
  /\ (r.status = 401 /\ RetryOn401Of(thunk[c]) /\ ~isRefreshing)
       => refreshTotal < MaxRefreshes
  /\ lastRefresh' = NoRefresh
  /\ UNCHANGED <<thunk, scenario, inFlight, lastAction, uiVars>>
  /\ LET b == makeRequestBranch(r.status, RetryOn401Of(thunk[c]), isRefreshing) IN
     CASE b = "queue" ->
            /\ failedQueue' = Append(failedQueue, c)
            /\ pc' = [pc EXCEPT ![c] = "queued"]
            /\ queuedAt' = [queuedAt EXCEPT ![c] = IF @ = 0 THEN sends[c] ELSE @]
            /\ result' = [d \in Calls |-> NoResult]
            /\ UNCHANGED <<sends, data, refreshStarts, awaits, isRefreshing, refreshPromise,
                           refreshCalls, refreshTotal, auth, storage, taskState>>
       [] b = "refresh" ->
            /\ pc' = [pc EXCEPT ![c] = "awaitRefresh"]
            /\ data' = [data EXCEPT ![c] = r.message]
            /\ IF SharesRefresh
               THEN /\ awaits' = [awaits EXCEPT ![c] = refreshPromise]
                    /\ UNCHANGED <<isRefreshing, refreshPromise, refreshCalls,
                                   refreshStarts, refreshTotal>>
               ELSE /\ awaits' = [awaits EXCEPT ![c] = c]
                    /\ BeginRefresh(c)
                    /\ refreshCalls' = refreshCalls \cup {c}
                    /\ refreshStarts' = [refreshStarts EXCEPT ![c] = @ + 1]
                    /\ refreshTotal' = refreshTotal + 1
            /\ result' = [d \in Calls |-> NoResult]
            /\ UNCHANGED <<sends, queuedAt, failedQueue, auth, storage, taskState>>
       [] OTHER ->
            LET res == IF b = "throw"
                       THEN Rejected(ApiError(Or(r.message, "Request failed"), c),
                                     "response", r.status)
                       ELSE Resolved(r.body, r.status)
                store == DispatchSettled(Store(auth, storage, taskState), thunk[c], res)
            IN  /\ pc' = [pc EXCEPT ![c] = "done"]
                /\ result' = [d \in Calls |-> IF d = c THEN res ELSE NoResult]
                /\ sends' = [sends EXCEPT ![c] = 0]
                /\ refreshStarts' = [refreshStarts EXCEPT ![c] = 0]
                /\ queuedAt' = [queuedAt EXCEPT ![c] = 0]
                /\ auth' = store.auth
                /\ storage' = store.storage
                /\ taskState' = store.taskState
                /\ UNCHANGED <<data, awaits, isRefreshing, refreshPromise,
                               failedQueue, refreshCalls, refreshTotal>>

\* the refresh promise once refreshToken() has settled: processQueue, the
\* finally block, the continuation of every makeRequest awaiting it, and the
\* dispatches of the thunks whose calls settle
RefreshResponse(o, r) ==
  /\ o \in refreshCalls
  /\ r \in Responses("refreshToken")
  /\ lastRefresh' = RefreshEvent(o, r.status)
  /\ UNCHANGED <<thunk, refreshTotal, scenario, inFlight, lastAction, uiVars>>
  /\ refreshCalls' = refreshCalls \ {o}
  /\ LET b == makeRequestBranch(r.status, RetryOn401Of("refreshToken"), isRefreshing)
         touched == {c \in Calls : InQueue(c) \/ c \in Waiters(o)}
     IN
     CASE b = "return" ->
            \* processQueue(null): every queued caller is resolved with retry()
            /\ pc' = [c \in Calls |-> IF c \in touched THEN "inflight" ELSE pc[c]]
            /\ sends' = [c \in Calls |-> IF c \in touched THEN sends[c] + 1 ELSE sends[c]]
            /\ awaits' = [c \in Calls |-> IF c \in touched THEN NoCall ELSE awaits[c]]
            /\ data' = [c \in Calls |-> IF c \in touched THEN Undefined ELSE data[c]]
            /\ failedQueue' = <<>>
            /\ EndRefresh
            /\ result' = [d \in Calls |-> NoResult]
            /\ UNCHANGED <<refreshStarts, queuedAt, auth, storage, taskState>>
       [] b = "throw" ->
            \* processQueue(error); throw error
            LET error == ApiError(Or(r.message, "Request failed"), RefreshSrc)
                results == [c \in Calls |->
                              IF InQueue(c)
                              THEN Rejected(QueueRejection(c, error), "queue", 401)
                              ELSE IF c \in Waiters(o)
                              THEN Rejected(RefreshFailedError(c, error), "refresh", 401)
                              ELSE NoResult]
            IN  /\ result' = results
                /\ sends' = [c \in Calls |-> IF c \in touched THEN 0 ELSE sends[c]]
                /\ refreshStarts' =
                     [c \in Calls |-> IF c \in touched THEN 0 ELSE refreshStarts[c]]
                /\ queuedAt' = [c \in Calls |-> IF c \in touched THEN 0 ELSE queuedAt[c]]
                /\ pc' = [c \in Calls |-> IF c \in touched THEN "done" ELSE pc[c]]
                /\ awaits' = [c \in Calls |-> IF c \in touched THEN NoCall ELSE awaits[c]]
                /\ data' = [c \in Calls |-> IF c \in touched THEN Undefined ELSE data[c]]
                /\ failedQueue' = <<>>
                /\ EndRefresh
                /\ \E order \in Orders(touched) :
                     LET store == DispatchAll(Store(auth, storage, taskState),
                                              order, thunk, results)
                     IN  /\ auth' = store.auth
                         /\ storage' = store.storage
                         /\ taskState' = store.taskState
       [] OTHER ->
            \* the refresh call itself waits on a refresh: it never settles
            /\ pc' = [c \in Calls |-> IF c \in Waiters(o) THEN "refreshRecursed" ELSE pc[c]]
            /\ result' = [d \in Calls |-> NoResult]
            /\ UNCHANGED <<sends, data, refreshStarts, queuedAt, awaits, failedQueue,
                           isRefreshing, refreshPromise, auth, storage, taskState>>

\* ------------------------------------------------------------------------
\* The pages: app/(workspaces)/layout.tsx, the login and signup pages, the
\* workspace page and the sidebar
\* ------------------------------------------------------------------------
Closed == "closed"
Routes == {"/login", "/signup", "/workspace"}
Protected(r) == r = "/workspace"

\* what WorkspacesLayout returns
Render_IgnoresLoading(a) ==
  IF a.isVerifying THEN "loading"
  ELSE IF ~a.isAuthenticated THEN "nothing"
  ELSE "children"

Render(a) ==
  IF a.isVerifying \/ a.isLoading THEN "loading"
  ELSE IF ~a.isAuthenticated THEN "nothing"
  ELSE "children"

Screen == IF Protected(route) THEN Render(auth) ELSE "page"

\* the values the effects depend on
Deps(a) ==
  [isAuthenticated |-> a.isAuthenticated, isVerifying |-> a.isVerifying,
   isLoading |-> a.isLoading]

EffectsDue == route \in Routes /\ committed # Some(Deps(auth))

\* the auth thunks in flight; handleSignOut is signOutAsync dispatched by the
\* workspace page, which pushes /login when it settles
AuthCallNames == {"signUp", "signIn", "signOut", "handleSignOut", "getCurrentUser"}

ThunkOf(call) == IF call = "handleSignOut" THEN "signOut" ELSE call

AuthReducer(s, st, name, phase, payload) ==
  CASE phase = "pending" ->
         (CASE name = "signUp" -> signUpPending(s, st)
            [] name = "signIn" -> signInPending(s, st)
            [] name = "signOut" -> signOutPending(s, st)
            [] OTHER -> getCurrentUserPending(s, st))
    [] phase = "fulfilled" ->
         (CASE name = "signUp" -> signUpFulfilled(s, st, payload)
            [] name = "signIn" -> signInFulfilled(s, st, payload)
            [] name = "signOut" -> signOutFulfilled(s, st)
            [] OTHER -> getCurrentUserFulfilled(s, st, payload))
    [] OTHER ->
         (CASE name = "signUp" -> signUpRejected(s, st, payload)
            [] name = "signIn" -> signInRejected(s, st, payload)
            [] name = "signOut" -> signOutRejected(s, st, payload)
            [] OTHER -> getCurrentUserRejected(s, st, payload))

\* what the server answers to a thunk that succeeds
AuthPayloads(name) ==
  CASE name \in {"signUp", "signIn"} -> {[data |-> u] : u \in Users}
    [] name = "getCurrentUser" -> Users
    [] OTHER -> {Undefined}

\* the user a fulfilled thunk stores
StoredUser(name, payload) ==
  CASE name \in {"signUp", "signIn"} -> Some(payload.data)
    [] name = "getCurrentUser" -> Some(payload)
    [] OTHER -> None

\* the browser opens or reloads page r: the store is built anew from localStorage
\* and the requests of the page before are dropped
Load(r) ==
  /\ r \in Routes
  /\ auth' = getInitialState(storage).auth
  /\ storage' = getInitialState(storage).storage
  /\ route' = r
  /\ nav' = None
  /\ authCalls' = {}
  /\ committed' = None
  /\ verified' = FALSE
  /\ noUserAtMount' = (Protected(r) /\ storage' = NoEntry)
  /\ verifyFailed' = FALSE
  /\ lastAction' = Action("load", "none", None)
  /\ UNCHANGED <<columns, apiVars, taskState, scenario, inFlight, persisted>>

\* handleSubmit of the login page (SubmitSignIn) and of the signup page
Submit(page, name) ==
  /\ route = page
  /\ ~EffectsDue
  /\ ~auth.isLoading
  /\ name \notin authCalls
  /\ LET cleared == authClearError(auth, storage)
         o == AuthReducer(cleared.auth, cleared.storage, name, "pending", None)
     IN  /\ auth' = o.auth
         /\ storage' = o.storage
  /\ authCalls' = authCalls \cup {name}
  /\ lastAction' = Action(name, "pending", None)
  /\ UNCHANGED <<columns, apiVars, taskState, scenario, inFlight, route, nav, committed, verified,
                 noUserAtMount, verifyFailed, persisted>>

SubmitSignIn == Submit("/login", "signIn")

SubmitSignUp == Submit("/signup", "signUp")

\* the log-out entry of the sidebar ("signOut") or the button of the workspace
\* page ("handleSignOut"); both are on screen only when the layout renders children
ClickSignOut(call) ==
  /\ call \in {"signOut", "handleSignOut"}
  /\ Protected(route)
  /\ Render(auth) = "children"
  /\ ~EffectsDue
  /\ call \notin authCalls
  /\ LET o == signOutPending(auth, storage)
     IN  /\ auth' = o.auth
         /\ storage' = o.storage
  /\ authCalls' = authCalls \cup {call}
  /\ lastAction' = Action("signOut", "pending", None)
  /\ UNCHANGED <<columns, apiVars, taskState, scenario, inFlight, route, nav, committed, verified,
                 noUserAtMount, verifyFailed, persisted>>

\* the links between the login and the signup page
FollowLink(r) ==
  /\ route \in {"/login", "/signup"}
  /\ r \in {"/login", "/signup"} \ {route}
  /\ ~EffectsDue
  /\ nav' = Some(r)
  /\ UNCHANGED <<columns, apiVars, auth, storage, taskState, scenario, inFlight, lastAction, route,
                 authCalls, committed, verified, noUserAtMount, verifyFailed, persisted>>

AuthFulfilled(call, payload) ==
  /\ call \in authCalls
  /\ LET o == AuthReducer(auth, storage, ThunkOf(call), "fulfilled", payload)
     IN  /\ auth' = o.auth
         /\ storage' = o.storage
  /\ authCalls' = authCalls \ {call}
  /\ nav' = IF call = "handleSignOut" THEN Some("/login") ELSE nav
  /\ verified' = (verified \/ (call = "getCurrentUser" /\ Protected(route)))
  /\ persisted' = StoredUser(ThunkOf(call), payload)
  /\ lastAction' = Action(ThunkOf(call), "fulfilled",
                          Some([data |-> IF IsSome(persisted') THEN Get(persisted')
                                         ELSE Undefined]))
  /\ UNCHANGED <<columns, apiVars, taskState, scenario, inFlight, route, committed, noUserAtMount,
                 verifyFailed>>

AuthRejected(call, payload) ==
  /\ call \in authCalls
  /\ LET o == AuthReducer(auth, storage, ThunkOf(call), "rejected", payload)
     IN  /\ auth' = o.auth
         /\ storage' = o.storage
  /\ authCalls' = authCalls \ {call}
  \* the catch of verifyAuth and of handleSignOut
  /\ nav' = IF call \in {"handleSignOut", "getCurrentUser"} THEN Some("/login") ELSE nav
  /\ verifyFailed' = (verifyFailed \/ (call = "getCurrentUser" /\ route # "/login"))
  /\ persisted' = IF call \in {"signUp", "signIn"} THEN persisted ELSE None
  /\ lastAction' = Action(ThunkOf(call), "rejected", Some(payload))
  /\ UNCHANGED <<columns, apiVars, taskState, scenario, inFlight, route, committed, verified,
                 noUserAtMount>>

\* the effects of the page on screen, run after a render in which their
\* dependencies changed (or after the mount)
ChangedDep(f) == committed = None \/ Get(committed)[f] # auth[f]

VerifyEffectFires ==
  /\ Protected(route)
  /\ ChangedDep("isVerifying") \/ ChangedDep("isLoading")
  /\ auth.isVerifying /\ ~auth.isLoading

RedirectEffectFires ==
  /\ Protected(route)
  /\ ~auth.isVerifying /\ ~auth.isLoading /\ ~auth.isAuthenticated

WorkspaceEffectFires ==
  /\ route \in {"/login", "/signup"}
  /\ ChangedDep("isAuthenticated")
  /\ auth.isAuthenticated

PageEffects ==
  /\ EffectsDue
  /\ committed' = Some(Deps(auth))
  /\ IF VerifyEffectFires
     THEN LET o == getCurrentUserPending(auth, storage)
          IN  /\ auth' = o.auth
              /\ storage' = o.storage
              /\ authCalls' = authCalls \cup {"getCurrentUser"}
              /\ lastAction' = Action("getCurrentUser", "pending", None)
     ELSE UNCHANGED <<auth, storage, authCalls, lastAction>>
  /\ nav' = IF RedirectEffectFires THEN Some("/login")
            ELSE IF WorkspaceEffectFires THEN Some("/workspace")
            ELSE nav
  /\ UNCHANGED <<columns, apiVars, taskState, scenario, inFlight, route, verified, noUserAtMount,
                 verifyFailed, persisted>>

\* the navigation started by router.push or a link completes
Navigate ==
  /\ IsSome(nav)
  /\ route' = Get(nav)
  /\ nav' = None
  /\ IF Get(nav) # route
     THEN /\ committed' = None
          /\ verified' = FALSE
          /\ noUserAtMount' = (Protected(Get(nav)) /\ storage = NoEntry)
     ELSE UNCHANGED <<committed, verified, noUserAtMount>>
  /\ verifyFailed' = (verifyFailed /\ Get(nav) # "/login")
  /\ UNCHANGED <<columns, apiVars, auth, storage, taskState, scenario, inFlight, lastAction,
                 authCalls, persisted>>

\* ------------------------------------------------------------------------
\* The tasks page (app/(workspaces)/tasks/page.tsx): one column per status
\* ------------------------------------------------------------------------
\* enum TaskStatus
ColumnStatuses == {"pending", "in_progress", "stuck", DONE}

\* TaskResponse.status is typed string: the server may send another value
ServerStatuses == ColumnStatuses \cup {"cancelled"}

\* TaskResponse.created_at is an ISO 8601 text; the second text names the
\* earlier instant although it is the later one in text order
CreatedAts == {"2025-01-02T00:00:00Z", "2025-01-02T01:00:00+07:00"}

\* new Date(created_at).getTime(), in hours since 2025-01-01T00:00:00Z
getTime(created_at) ==
  CASE created_at = "2025-01-02T00:00:00Z" -> 24
    [] created_at = "2025-01-02T01:00:00+07:00" -> 18

\* a task as the page reads it: the fields filterTasksByStatus looks at
BoardTask(id, status, created_at) ==
  [id |-> id, status |-> status, created_at |-> created_at]

\* the comparator handed to sort: dateA - dateB
compareCreatedAt(a, b) == getTime(a.created_at) - getTime(b.created_at)

\* Array.prototype.sort is stable: an element goes behind every element that
\* does not compare greater
InsertSorted(sorted, x) ==
  SelectSeq(sorted, LAMBDA y : compareCreatedAt(y, x) <= 0) \o <<x>>
    \o SelectSeq(sorted, LAMBDA y : compareCreatedAt(y, x) > 0)

\* a sort that leaves the filtered list as it came
sort_KeepsListOrder(list) == list

RECURSIVE sort(_)
sort(list) ==
  IF list = <<>> THEN <<>>
  ELSE InsertSorted(sort(SubSeq(list, 1, Len(list) - 1)), list[Len(list)])

filterTasksByStatus(tasks, status) ==
  sort(SelectSeq(tasks, LAMBDA task : task.status = status))

\* pendingTasks, inProgressTasks, stuckTasks and doneTasks, recomputed by
\* useMemo whenever state.task.tasks changes
Columns(tasks) == [status \in ColumnStatuses |-> filterTasksByStatus(tasks, status)]

\* the lists getTasksAsync can have loaded: the ids are distinct
BoardLists ==
  UNION {{[i \in 1..n |-> BoardTask(i, f[i][1], f[i][2])] :
            f \in [1..n -> ServerStatuses \X CreatedAts]} : n \in 0..MaxCards}

\* handleUpdateStatus of a card dispatches updateTaskStatusAsync
BoardDispatch ==
  /\ scenario = "board"
  /\ inFlight = "none"
  /\ taskState.tasks # <<>>
  /\ taskState' = updateTaskStatusPending(taskState)
  /\ inFlight' = "updateTaskStatus"
  /\ columns' = Columns(taskState'.tasks)
  /\ lastAction' = Action("updateTaskStatus", "pending", None)
  /\ UNCHANGED <<apiVars, auth, storage, scenario, route, nav, authCalls,
                 committed, verified, noUserAtMount, verifyFailed, persisted>>

\* the server answers with the task under its new status
BoardFulfilled(index, status) ==
  /\ scenario = "board"
  /\ inFlight = "updateTaskStatus"
  /\ index \in 1..Len(taskState.tasks)
  /\ taskState' = updateTaskStatusFulfilled(taskState,
                    [taskState.tasks[index] EXCEPT !.status = status])
  /\ inFlight' = "none"
  /\ columns' = Columns(taskState'.tasks)
  /\ lastAction' = Action("updateTaskStatus", "fulfilled",
                          Some([taskState.tasks[index] EXCEPT !.status = status]))
  /\ UNCHANGED <<apiVars, auth, storage, scenario, route, nav, authCalls,
                 committed, verified, noUserAtMount, verifyFailed, persisted>>

BoardRejected(payload) ==
  /\ scenario = "board"
  /\ inFlight = "updateTaskStatus"
  /\ taskState' = updateTaskStatusRejected(taskState, payload)
  /\ inFlight' = "none"
  /\ columns' = Columns(taskState'.tasks)
  /\ lastAction' = Action("updateTaskStatus", "rejected", Some(payload))
  /\ UNCHANGED <<apiVars, auth, storage, scenario, route, nav, authCalls,
                 committed, verified, noUserAtMount, verifyFailed, persisted>>

\* the session variables while no page is modelled
InitUi ==
  /\ route = Closed
  /\ nav = None
  /\ authCalls = {}
  /\ committed = None
  /\ verified = FALSE
  /\ noUserAtMount = FALSE
  /\ verifyFailed = FALSE
  /\ persisted = None
  /\ columns = None

InitApi ==
  /\ pc = [c \in Calls |-> "idle"]
  /\ thunk = [c \in Calls |-> "none"]
  /\ sends = [c \in Calls |-> 0]
  /\ data = [c \in Calls |-> Undefined]
  /\ result = [c \in Calls |-> NoResult]
  /\ refreshStarts = [c \in Calls |-> 0]
  /\ queuedAt = [c \in Calls |-> 0]
  /\ awaits = [c \in Calls |-> NoCall]
  /\ isRefreshing = FALSE
  /\ refreshPromise = NoCall
  /\ failedQueue = <<>>
  /\ refreshCalls = {}
  /\ lastRefresh = NoRefresh
  /\ refreshTotal = 0

Init ==
  /\ InitApi
  /\ \E userStr \in {NoEntry, Garbage} \cup {Stringify(u) : u \in Users} :
       /\ auth = getInitialState(userStr).auth
       /\ storage = getInitialState(userStr).storage
  /\ taskState = initialState
  /\ scenario = "api"
  /\ inFlight = "none"
  /\ lastAction = NoAction
  /\ InitUi

Next ==
  \/ \E c \in Calls, kind \in ThunkKinds : StartCall(c, kind)
  \/ \E c \in Calls : \E r \in Responses(thunk[c]) : Response(c, r)
  \/ \E o \in Calls, r \in Responses("refreshToken") : RefreshResponse(o, r)

Spec == Init /\ [][Next]_vars

\* a session on the task pages: the store starts empty and one thunk is in flight
\* at a time
InitTask ==
  /\ InitApi
  /\ auth = getInitialState(NoEntry).auth
  /\ storage = getInitialState(NoEntry).storage
  /\ taskState = initialState
  /\ scenario \in Scenarios
  /\ inFlight = "none"
  /\ lastAction = NoAction
  /\ InitUi

NextTask ==
  \/ \E name \in ScenarioThunks(scenario) : TaskDispatch(name)
  \/ \E name \in ScenarioThunks(scenario) :
       \E payload \in FulfilledPayloads(scenario, name, taskState) :
         TaskFulfilled(name, payload)
  \/ \E name \in ScenarioThunks(scenario), payload \in RejectedPayloads :
       TaskRejected(name, payload)
  \/ ClearError

SpecTask == InitTask /\ [][NextTask]_vars

\* a browser session: localStorage holds what earlier sessions left, no page is
\* open yet and the store is the one built on the server
InitAuth ==
  /\ InitApi
  /\ storage \in {NoEntry, Garbage} \cup {Stringify(u) : u \in Users}
  /\ auth = getInitialStateServer
  /\ taskState = initialState
  /\ scenario = "auth"
  /\ inFlight = "none"
  /\ lastAction = NoAction
  /\ InitUi

NextAuth ==
  \/ \E r \in Routes : Load(r)
  \/ SubmitSignIn
  \/ SubmitSignUp
  \/ \E call \in {"signOut", "handleSignOut"} : ClickSignOut(call)
  \/ \E r \in Routes : FollowLink(r)
  \/ \E call \in AuthCallNames : \E payload \in AuthPayloads(ThunkOf(call)) :
       AuthFulfilled(call, payload)
  \/ \E call \in AuthCallNames, payload \in RejectedPayloads : AuthRejected(call, payload)
  \/ PageEffects
  \/ Navigate

SpecAuth == InitAuth /\ [][NextAuth]_vars

\* effects run after every render and a started navigation completes
SpecAuthFair == SpecAuth /\ WF_vars(PageEffects) /\ WF_vars(Navigate)

\* The tasks page after getTasksAsync has loaded a list and the page has
\* rendered it; cards then change status.
InitColumns ==
  /\ InitApi
  /\ auth = getInitialState(NoEntry).auth
  /\ storage = getInitialState(NoEntry).storage
  /\ taskState \in {getTasksFulfilled(getTasksPending(initialState), list) :
                      list \in BoardLists}
  /\ scenario = "board"
  /\ inFlight = "none"
  /\ lastAction = NoAction
  /\ route = Closed
  /\ nav = None
  /\ authCalls = {}
  /\ committed = None
  /\ verified = FALSE
  /\ noUserAtMount = FALSE
  /\ verifyFailed = FALSE
  /\ persisted = None
  /\ columns = Columns(taskState.tasks)

NextColumns ==
  \/ BoardDispatch
  \/ \E index \in 1..MaxCards, status \in ServerStatuses : BoardFulfilled(index, status)
  \/ \E payload \in RejectedPayloads : BoardRejected(payload)

SpecColumns == InitColumns /\ [][NextColumns]_vars

\* ------------------------------------------------------------------------
\* Properties of the request wrapper
\* ------------------------------------------------------------------------
LoggedOut(a, st) == a.user = Null /\ ~a.isAuthenticated /\ st = NoEntry

\* C1: at most one POST /api/auth/refresh started by the 401 handling is in
\* flight in any reachable state.
C1_OneRefreshInFlight == Cardinality(refreshCalls) <= 1

\* a refresh is in flight while a second caller that saw a 401 waits in failedQueue
C1_Witness ==
  /\ Cardinality(refreshCalls) = 1
  /\ failedQueue # <<>>
  /\ \E c \in Calls : pc[c] = "awaitRefresh"

\* C2 (as claimed): a call put in failedQueue is re-sent exactly once, so it is
\* never fetched more than once beyond the send whose 401 queued it.
C2_QueuedResentOnce ==
  \A c \in Calls : queuedAt[c] > 0 => sends[c] <= queuedAt[c] + 1

\* C3: when the refresh fails, each call awaiting it rejects with the error
\* built from its own 401 response (that response's message, or
\* "Authentication failed" when it has none), not the refresh call's error,
\* and is finished without being fetched again.
C3_InitiatorGetsOwnError ==
  [][\A c \in Calls :
       (pc[c] = "awaitRefresh" /\ lastRefresh'.owner = awaits[c]
          /\ ~Ok(lastRefresh'.status)) =>
         /\ pc'[c] = "done"
         /\ result'[c].kind = "rejected"
         /\ result'[c].error.src = c
         /\ result'[c].error.message =
              (IF data[c] = Undefined THEN "Authentication failed" ELSE data[c])
         /\ sends'[c] = 0]_vars

\* a refresh failed for an initiator whose 401 response carried no message,
\* and for one whose 401 response carried one
C3_Witness ==
  /\ ~Ok(lastRefresh.status)
  /\ \E c \in Calls :
       /\ lastRefresh.owner = c
       /\ pc[c] = "done"
       /\ result[c].via = "refresh"
       /\ result[c].error.message = "Authentication failed"

\* C4 (as claimed): a caller rejected out of failedQueue gets the error of its
\* own 401 response.
C4_QueuedGetsOwnError ==
  \A c \in Calls :
    (lastRefresh.owner # NoCall /\ ~Ok(lastRefresh.status) /\ result[c].via = "queue")
      => result[c].error.src = c

\* C5 (as claimed): one apiClient call starts at most one refresh.
C5_OneRefreshPerCall == \A c \in Calls : refreshStarts[c] <= 1

\* C6: a call made with retryOn401 = false never starts a refresh, is never
\* queued and is fetched once; a 401 response rejects it with an ApiError
\* built from that response; the refresh call never waits on a refresh.
C6_NoRetryNeverRefreshes ==
  \A c \in Calls :
    /\ pc[c] # "refreshRecursed"
    /\ (thunk[c] # "none" /\ ~RetryOn401Of(thunk[c])) =>
         /\ pc[c] \in {"inflight", "done"}
         /\ refreshStarts[c] = 0
         /\ queuedAt[c] = 0
         /\ sends[c] <= 1
         /\ (pc[c] = "done" /\ result[c].status = 401) =>
              /\ result[c].kind = "rejected"
              /\ result[c].via = "response"
              /\ result[c].error.src = c

\* a retryOn401 = false call was answered 401 while a refresh was in flight
C6_Witness ==
  \E c \in Calls :
    /\ thunk[c] = "refreshToken"
    /\ pc[c] = "done"
    /\ result[c].status = 401
    /\ isRefreshing

\* C7 (as claimed): after a step in which the automatic refresh fails, the
\* user is logged out.
C7_RefreshFailureLogsOut ==
  [][(lastRefresh'.owner # NoCall /\ ~Ok(lastRefresh'.status))
       => LoggedOut(auth', storage')]_vars


\* ------------------------------------------------------------------------
\* Properties of the task slice
\* ------------------------------------------------------------------------
CountersAgree(s) ==
  (IsSome(s.task) /\ IsSome(Get(s.task).subtask)) =>
     LET count == Get(Get(s.task).subtask)
         subtasks == LocalList(s, "subtasks")
     IN  /\ count.total = Len(subtasks)
         /\ count.done = CountDone(subtasks)

\* C8: in every reachable state with a task detail loaded, subtask.total is the
\* number of entries of task.subtasks and subtask.done the number of those
\* whose status is "done" (details are loaded with agreeing counters)
C8_CountersAgree == CountersAgree(taskState)

FailureTexts ==
  {"Failed to create task", "Failed to get tasks", "Failed to get task detail",
   "Failed to update task status", "Failed to update task", "Failed to delete task",
   "Failed to create comment", "Failed to delete comment", "Failed to update comment"}

\* C9: after the rejection of any task, comment or subtask thunk state.error is a
\* non-null string: the server's message if it sent one, else a default text
C9_FailureStoresError ==
  lastAction.phase = "rejected" =>
     LET message == Get(lastAction.payload).message
     IN  /\ taskState.error # Null
         /\ IF message = Undefined
            THEN taskState.error \in FailureTexts
            ELSE taskState.error = message

UpdateThunks == {"updateTask", "updateTaskStatus", "updateComment", "updateSubTask"}

\* the list an update thunk writes to, if the state holds one
ListOf(s, name) ==
  CASE name \in {"updateTask", "updateTaskStatus"} -> Some(s.tasks)
    [] name = "updateComment" -> IF IsSome(s.task) THEN Get(s.task).comments ELSE None
    [] OTHER -> IF IsSome(s.task) THEN Get(s.task).subtasks ELSE None

\* C10: a fulfilled updateTask, updateTaskStatus, updateComment or updateSubTask
\* puts the response in place of the entry with the response's id and leaves
\* every other entry, the length and the order of the list as they were; with
\* no such entry the list is unchanged
C10_UpdateReplacesById ==
  [][(lastAction'.phase = "fulfilled" /\ lastAction'.name \in UpdateThunks) =>
       LET response == Get(lastAction'.payload)
           old == ListOf(taskState, lastAction'.name)
           new == ListOf(taskState', lastAction'.name)
       IN  /\ IsSome(old) = IsSome(new)
           /\ IsSome(old) =>
                /\ Len(Get(new)) = Len(Get(old))
                /\ \A i \in 1..Len(Get(old)) :
                     Get(new)[i] = IF Get(old)[i].id = response.id
                                   THEN response
                                   ELSE Get(old)[i]]_vars

\* an updateTask response has replaced the second of two tasks
C10_Witness ==
  /\ lastAction.phase = "fulfilled"
  /\ lastAction.name = "updateTask"
  /\ Len(taskState.tasks) = 2
  /\ taskState.tasks[2] = Get(lastAction.payload)
  /\ taskState.tasks[2].v = 2
  /\ taskState.tasks[1].id # taskState.tasks[2].id


\* ------------------------------------------------------------------------
\* Properties of the auth slice and of the protected layout
\* ------------------------------------------------------------------------
Settled(name, phase) == lastAction.name = name /\ lastAction.phase = phase

\* C11: once signOutAsync has settled, fulfilled or rejected, user is null,
\* isAuthenticated and isLoading are false and the "user" entry is removed
C11_SignOutClearsSession ==
  (Settled("signOut", "fulfilled") \/ Settled("signOut", "rejected")) =>
     /\ LoggedOut(auth, storage)
     /\ ~auth.isLoading

\* a sign-out that the server refused has cleared the session
C11_Witness ==
  /\ Settled("signOut", "rejected")
  /\ auth.error = "Signout failed"
  /\ LoggedOut(auth, storage)
  /\ route = "/workspace"

\* C12: once signInAsync or signUpAsync is fulfilled the state holds the
\* server's user, authenticated, not verifying, not loading, without error, and
\* the "user" entry is the JSON of that user; once either is rejected
\* isAuthenticated is false and error is the server's message or the default
C12_SignInSetsSession ==
  \A name \in {"signIn", "signUp"} :
    /\ Settled(name, "fulfilled") =>
         LET user == Get(lastAction.payload).data
         IN  /\ auth = AuthState(user, TRUE, FALSE, FALSE, Null)
             /\ IsJson(storage)
             /\ Parse(storage) = user
    /\ Settled(name, "rejected") =>
         LET message == Get(lastAction.payload).message
         IN  /\ ~auth.isAuthenticated
             /\ auth.error = IF message # Undefined THEN message
                             ELSE IF name = "signIn" THEN "Signin failed"
                             ELSE "Signup failed"

\* a sign-in answered with bob has stored bob in the state and in localStorage
C12_Witness ==
  /\ Settled("signIn", "fulfilled")
  /\ Get(lastAction.payload).data = "bob"
  /\ auth.user = "bob"
  /\ storage = Stringify("bob")
  /\ persisted = Some("bob")

\* C13: the protected layout renders its children only when isAuthenticated
\* is true and isVerifying and isLoading are false; while a verification is
\* running it shows the loading state; when the state is not authenticated it
\* never shows the children, and shows nothing once nothing is loading
C13_ChildrenOnlyWhenAuthenticated ==
  Protected(route) =>
     /\ Screen = "children" =>
          auth.isAuthenticated /\ ~auth.isVerifying /\ ~auth.isLoading
     /\ (auth.isVerifying \/ "getCurrentUser" \in authCalls) => Screen = "loading"
     /\ ~auth.isAuthenticated => Screen # "children"
     /\ (~auth.isAuthenticated /\ ~auth.isVerifying /\ ~auth.isLoading) =>
          Screen = "nothing"

\* the layout shows the children after a verification that succeeded
C13_Witness ==
  /\ Protected(route)
  /\ Screen = "children"
  /\ Settled("getCurrentUser", "fulfilled")
  /\ verified

\* C14: protected content is on screen only after a GET /api/auth/me
\* verification has succeeded since the protected layout was entered, also when
\* it is entered right after a successful sign-in or sign-up
C14_VerifiedBeforeContent ==
  (Protected(route) /\ Screen = "children") => verified

\* C15: when the protected layout has mounted with no "user" entry in
\* localStorage, protected content is not rendered
C15_NoUserNoContent == noUserAtMount => Screen # "children"

\* C16: when getCurrentUserAsync is rejected the auth state is cleared (user
\* null, isAuthenticated and isVerifying false, "user" entry removed); from
\* then until /login is on screen the layout does not render its children; and
\* /login does come on screen, unless the page is reloaded first
C16_FailedVerificationRedirects ==
  /\ [](Settled("getCurrentUser", "rejected") =>
          (LoggedOut(auth, storage) /\ ~auth.isVerifying))
  /\ [](verifyFailed => Screen # "children")
  /\ (verifyFailed ~> (route = "/login" \/ Settled("load", "none")))

\* a verification has failed under the layout: nothing is rendered and the
\* push to /login is under way
C16_Witness ==
  /\ verifyFailed
  /\ Settled("getCurrentUser", "rejected")
  /\ route = "/workspace"
  /\ Screen = "nothing"
  /\ nav = Some("/login")
  /\ LoggedOut(auth, storage)

Unauthenticated == AuthState(Null, FALSE, FALSE, TRUE, Null)
Restored(user) == AuthState(user, TRUE, FALSE, TRUE, Null)

Occurrences(column, id) == Cardinality({i \in 1..Len(column) : column[i].id = id})

\* C18: on the tasks page every task whose status is pending, in_progress,
\* stuck or done stands in exactly one column, the one of its status, and
\* every column is ordered by ascending created_at, the newest task last.
C18_OneColumnOldestFirst ==
  /\ \A i \in 1..Len(taskState.tasks) :
       LET task == taskState.tasks[i] IN
       task.status \in ColumnStatuses =>
         \A status \in ColumnStatuses :
           Occurrences(columns[status], task.id) = IF status = task.status THEN 1 ELSE 0
  /\ \A status \in ColumnStatuses :
       /\ \A j \in 1..Len(columns[status]) : columns[status][j].status = status
       /\ \A j, k \in 1..Len(columns[status]) :
            j < k => getTime(columns[status][j].created_at)
                       <= getTime(columns[status][k].created_at)

\* a card moved into a column whose list order is not its date order: the
\* newer task comes first in state.tasks and last in the column
C18_Witness ==
  /\ scenario = "board"
  /\ Settled("updateTaskStatus", "fulfilled")
  /\ \E status \in ColumnStatuses :
       \E i, j \in 1..Len(taskState.tasks) :
         /\ i < j
         /\ taskState.tasks[i].status = status
         /\ taskState.tasks[j].status = status
         /\ getTime(taskState.tasks[i].created_at) > getTime(taskState.tasks[j].created_at)
         /\ columns[status] = <<taskState.tasks[j], taskState.tasks[i]>>
  /\ \E i \in 1..Len(taskState.tasks) : taskState.tasks[i].status \notin ColumnStatuses

\* ------------------------------------------------------------------------
\* Re-sending after a refresh
\* ------------------------------------------------------------------------
\* the call's last response was a 401 and it waits for a refresh to settle
WaitsForRefresh(c) == pc[c] \in {"queued", "awaitRefresh"}

\* C19: a request that received a 401 is fetched again only in the step in
\* which the refresh call it waits for completes successfully, that refresh
\* then being over; it is not fetched again while the refresh is in flight
\* nor when the refresh fails.
C19_ResentOnlyAfterRefreshSucceeded ==
  [][\A c \in Calls :
       /\ (sends[c] >= 1 /\ sends'[c] > sends[c]) =>
            /\ WaitsForRefresh(c)
            /\ lastRefresh'.owner # NoCall
            /\ Ok(lastRefresh'.status)
            /\ lastRefresh'.owner \notin refreshCalls'
            /\ pc[c] = "awaitRefresh" => awaits[c] = lastRefresh'.owner
       /\ (WaitsForRefresh(c) /\ pc'[c] = "inflight") => sends'[c] = sends[c] + 1
       /\ (WaitsForRefresh(c) /\ lastRefresh'.owner # NoCall /\ ~Ok(lastRefresh'.status)) =>
            (sends'[c] <= sends[c] /\ pc'[c] # "inflight")]_vars

\* a refresh succeeded and both the call that started it and a call queued
\* behind it have been fetched a second time
C19_Witness ==
  /\ lastRefresh.owner # NoCall
  /\ Ok(lastRefresh.status)
  /\ \E c, d \in Calls :
       /\ c # d
       /\ lastRefresh.owner = c
       /\ queuedAt[d] = 1
       /\ pc[c] = "inflight" /\ sends[c] = 2
       /\ pc[d] = "inflight" /\ sends[d] = 2

\* ------------------------------------------------------------------------
\* Rejected thunks and the entities
\* ------------------------------------------------------------------------
\* C20: the rejection of a task, comment or subtask thunk leaves state.tasks
\* and state.task (its comments, subtasks and counters included) exactly as
\* they were; nothing but isLoading and error differs afterwards.
C20_RejectionKeepsEntities ==
  [][(inFlight # "none" /\ inFlight' = "none" /\ lastAction'.phase = "rejected") =>
       /\ taskState'.tasks = taskState.tasks
       /\ taskState'.task = taskState.task
       /\ [taskState' EXCEPT !.isLoading = taskState.isLoading,
                             !.error = taskState.error] = taskState]_vars

\* a thunk has been rejected while the list and the opened task were loaded
C20_Witness ==
  /\ lastAction.phase = "rejected"
  /\ inFlight = "none"
  /\ taskState.tasks # <<>>
  /\ IsSome(taskState.task)
  /\ taskState.error # Null

====
